---- MODULE Spec2Model ----
(***************************************************************************)
(* Translation request scheduler of srttranslate: the LRU result cache,    *)
(* the in-flight promise cache, the admission queue with its worker pool   *)
(* and retry loop, and its two clients: translateBatch and the subtitle    *)
(* sessions of the useTranslation hook.  Two builds of TranslationService  *)
(* exist in the repository (the service module and the copy kept in the    *)
(* hook file); the variable `variant` says which one runs.                 *)
(***************************************************************************)
EXTENDS Integers, Sequences, FiniteSets, TLC

VARIABLES
  variant,             \* "service" (part_000) or "hook" (useTranslation.ts copy)
  resultCache,         \* LRUCache: [keys |-> array, MRU first; cache |-> Map]
  promiseCache,        \* Map cacheKey -> promise id
  translationQueue,    \* array of queued items (promise ids), head first
  activeTranslations,  \* number of dispatched, unsettled items
  maxConcurrent,
  isProcessing,
  promises,            \* the unsettled queue items (translationPromise), by id
  nextId,              \* id of the next item created
  usedTexts,           \* how many of the texts have been submitted so far
  callers,             \* the translate() calls that attached to a pending promise
  firstOutcome,        \* ghost: outcome the creating call got, for promises with attached callers
  ghost,               \* which history is recorded: "none", "cache" or "ops"
  recency,             \* ghost: cached keys by most recent access, newest first
  lastCache,           \* ghost: the last LRUCache operation and what it did
  lastOp,              \* ghost: the last scheduler operation
  dispatchLog,         \* ghost: promise ids in the order they were dispatched
  todo,                \* what is left of the running task: synchronous steps and continuations
  longTexts,           \* which of the texts are long ones
  batch,               \* the translateBatch call in progress, or the last one
  batchNo,             \* translateBatch calls made so far
  sessions,            \* the translateSubtitles calls, in the order they were made
  isCancelledRef,
  progressRef,         \* also the translationProgress state, which is set with it
  isTranslating,
  translationCacheRef, \* Map `${text}_${targetLanguage}` -> translated text
  errorCounts          \* errorCounts of executeTranslationTask, by item id

cacheVars == <<resultCache, recency, lastCache>>
poolVars == <<translationQueue, activeTranslations, isProcessing, promises, dispatchLog>>
schedVars == <<promiseCache, maxConcurrent, nextId, usedTexts, callers, firstOutcome, lastOp, poolVars>>
serviceVars == <<variant, ghost, cacheVars, schedVars>>
hookVars == <<sessions, isCancelledRef, progressRef, isTranslating, translationCacheRef>>
batchVars == <<longTexts, batch, batchNo>>
clientVars == <<todo, batchVars, hookVars, errorCounts>>
vars == <<serviceVars, clientVars>>

----------------------------------------------------------------------------
(* Bounds of the model *)

NumTexts == 3        \* distinct non-blank texts
MaxCalls == 4        \* translate() calls of one behaviour that create or join a request
maxSize == 2         \* LRUCache capacity (constructor argument, 1000 in the app)
SerialTexts == 5     \* texts submitted in the one-at-a-time scenario
RetryCalls == 2      \* the same, when the retry history is recorded

----------------------------------------------------------------------------
(* Values *)

Texts == {<<"text", i>> : i \in 1..NumTexts}
TextA == <<"text", 1>>
TextB == <<"text", 2>>
EmptyStr == <<"", 0>>            \* the empty string
Blank == <<"blank", 0>>          \* a whitespace-only string
Undefined == <<"undefined", 0>>  \* JS undefined
Tr(text) == <<"zh", text[2]>>    \* what the remote service answers for text
NoKey == <<"", "", Undefined>>
EmptyMap == [k \in {} |-> Undefined]

\* JS truthiness of a string | undefined
TruthyNever(v) == FALSE
Truthy(v) == v # Undefined /\ v # EmptyStr

\* text.trim() is the empty string
TrimIsEmptyOnly(text) == text = EmptyStr
TrimIsEmpty(text) == text = EmptyStr \/ text = Blank

Min(a, b) == IF a < b THEN a ELSE b
Max(a, b) == IF a > b THEN a ELSE b

\* how a promise stands
Pending == [state |-> "pending", value |-> Undefined]
Resolved(v) == [state |-> "resolved", value |-> v]
Rejected == [state |-> "rejected", value |-> Undefined]

----------------------------------------------------------------------------
(* LRUCache *)

getKey(sourceLang, targetLang, text) == <<sourceLang, targetLang, text>>

Without(ks, key) == SelectSeq(ks, LAMBDA k : k # key)

MapPut(mp, key, v) == [k \in DOMAIN mp \cup {key} |-> IF k = key THEN v ELSE mp[k]]
MapDeleteNone(mp, key) == mp
MapDelete(mp, key) == [k \in DOMAIN mp \ {key} |-> mp[k]]
MapGet(mp, key) == IF key \in DOMAIN mp THEN mp[key] ELSE Undefined

\* get: the value returned
LRUGetValue(c, key) == MapGet(c.cache, key)

\* get: whether the entry is moved to the front (if (value))
GetPromotesNever(value) == FALSE
GetPromotes(value) == Truthy(value)

\* get: the cache afterwards
LRUGet(c, key) ==
  IF GetPromotes(LRUGetValue(c, key))
    THEN [c EXCEPT !.keys = <<key>> \o Without(c.keys, key)]
    ELSE c

\* set: the capacity test of the insertion branch
CacheFullOffByOne(mp) == Cardinality(DOMAIN mp) > maxSize
CacheFull(mp) == Cardinality(DOMAIN mp) >= maxSize

\* set: the key removed by keys.pop(), NoKey when nothing is deleted
LRUEvicted(c, key) ==
  IF key \notin DOMAIN c.cache /\ CacheFull(c.cache) /\ Len(c.keys) > 0
    THEN c.keys[Len(c.keys)]
    ELSE NoKey

\* set: the cache afterwards
LRUSet(c, key, translatedText) ==
  LET has == key \in DOMAIN c.cache
      ev == LRUEvicted(c, key)
      keys1 == IF has THEN Without(c.keys, key)
               ELSE IF ev # NoKey THEN SubSeq(c.keys, 1, Len(c.keys) - 1)
               ELSE c.keys
      map1 == IF ev # NoKey THEN MapDelete(c.cache, ev) ELSE c.cache
  IN [keys |-> <<key>> \o keys1, cache |-> MapPut(map1, key, translatedText)]

LRUClear == [keys |-> <<>>, cache |-> EmptyMap]

LRUSize(c) == Cardinality(DOMAIN c.cache)

\* ghost: the recency order after an access to key
Touch(rs, key) == <<key>> \o Without(rs, key)

\* ghost record of a cache operation
CacheOp(name, key, ev) ==
  [op |-> name, key |-> key, evicted |-> ev,
   lru |-> IF recency = <<>> THEN NoKey ELSE recency[Len(recency)],
   sizeBefore |-> LRUSize(resultCache),
   hadKey |-> key \in DOMAIN resultCache.cache]

LogCache(r) == lastCache' = IF ghost = "cache" THEN r ELSE lastCache

\* The three cache operations as state changes, with their ghosts
DoCacheGet(key) ==
  /\ resultCache' = LRUGet(resultCache, key)
  /\ recency' = IF key \in DOMAIN resultCache.cache THEN Touch(recency, key) ELSE recency
  /\ LogCache(CacheOp("get", key, NoKey))

DoCacheSet(key, v) ==
  /\ resultCache' = LRUSet(resultCache, key, v)
  /\ recency' = Touch(Without(recency, LRUEvicted(resultCache, key)), key)
  /\ LogCache(CacheOp("set", key, LRUEvicted(resultCache, key)))

DoCacheKeep ==
  /\ UNCHANGED <<resultCache, recency>>
  /\ LogCache(CacheOp("clear", NoKey, NoKey))

DoCacheClear ==
  /\ resultCache' = LRUClear
  /\ recency' = <<>>
  /\ LogCache(CacheOp("clear", NoKey, NoKey))

----------------------------------------------------------------------------
(* TranslationService: the admission queue and the worker pool *)

\* ghost record of a scheduler operation
NoOp(name) == [op |-> name, kind |-> "", id |-> 0, text |-> Undefined,
               value |-> Undefined, calls |-> 0]

LogOp(r) == lastOp' = IF ghost = "ops" THEN r ELSE lastOp

\* translationQueue.shift()
Pop(q) == [item |-> q[Len(q)], rest |-> SubSeq(q, 1, Len(q) - 1)]
Shift(q) == [item |-> Head(q), rest |-> Tail(q)]

\* the loop condition of processQueueIterative
CanDispatchNever(q, active, max) == FALSE
CanDispatchInclusive(q, active, max) == Len(q) > 0 /\ active <= max
CanDispatch(q, active, max) == Len(q) > 0 /\ active < max

\* processQueueIterative: the loop; `started` lists the items handed to
\* executeTranslationTask, in order
RECURSIVE DispatchLoop(_, _, _, _)
DispatchLoop(q, active, max, started) ==
  IF CanDispatch(q, active, max)
    THEN DispatchLoop(Shift(q).rest, active + 1, max, Append(started, Shift(q).item))
    ELSE [queue |-> q, active |-> active, started |-> started]

\* processQueueIterative: the loop, then the isProcessing update
processQueueIterativeBusy(q, active, max) ==
  LET r == DispatchLoop(q, active, max, <<>>)
  IN [queue |-> r.queue, active |-> r.active, started |-> r.started, isProcessing |-> TRUE]
processQueueIterative(q, active, max) ==
  LET r == DispatchLoop(q, active, max, <<>>)
  IN [queue |-> r.queue, active |-> r.active, started |-> r.started,
      isProcessing |-> Len(r.queue) > 0 \/ r.active > 0]

\* startProcessingQueue, with its early return
startProcessingQueue(q, active, max, processing) ==
  IF processing
    THEN [queue |-> q, active |-> active, started |-> <<>>, isProcessing |-> processing]
    ELSE processQueueIterative(q, active, max)

\* executeTranslationTask up to its first await: attempts = 0, first remote call
StartTaskNone(ps, started) == ps
StartTask(ps, started) ==
  [i \in DOMAIN ps |->
     IF \E j \in DOMAIN started : started[j] = i
       THEN [ps[i] EXCEPT !.stage = "active", !.attempts = 0, !.calls = 1]
       ELSE ps[i]]

\* the pool's fields after a processing pass r, over the promise table ps
ApplyPool(r, ps) ==
  /\ translationQueue' = r.queue
  /\ activeTranslations' = r.active
  /\ isProcessing' = r.isProcessing
  /\ dispatchLog' = dispatchLog \o r.started
  /\ promises' = StartTask(ps, r.started)

----------------------------------------------------------------------------
(* The remote call and the retry loop *)

Responses == {"ok", "empty", "malformed", "timeout", "http429", "http5xx"}

ShortLength == 10      \* characters of a short text
maxTextLength == 5000  \* the longest text the service build sends
LongLength == maxTextLength    \* characters of a long text

\* text.length
TextLength(text) ==
  IF text = EmptyStr THEN 0
  ELSE IF text = Blank THEN 1
  ELSE IF text \in longTexts THEN LongLength
  ELSE ShortLength

\* translateWithGoogleAPI: what the call returns, or that it throws.  The
\* service build throws before the request when the text is longer than
\* maxTextLength.
ApiResult(v, text, resp) ==
  IF v = "service" /\ TextLength(text) > maxTextLength
    THEN [ok |-> FALSE, value |-> Undefined]
  ELSE IF resp = "ok" THEN [ok |-> TRUE, value |-> Tr(text)]
  ELSE IF resp = "empty"
    THEN [ok |-> TRUE, value |-> IF v = "service" THEN text ELSE EmptyStr]
  ELSE [ok |-> FALSE, value |-> Undefined]

maxAttempts == IF variant = "service" THEN 3 ELSE 2

\* while (attempts <= maxAttempts)
LoopContinuesStrict(attempts) == attempts < maxAttempts
LoopContinues(attempts) == attempts <= maxAttempts

\* translate's check of the promise cache
HasPendingNever(key) == FALSE
HasPending(key) == key \in DOMAIN promiseCache

\* the callers attached to promise id receive its outcome
Deliver(cs, id, outcome) ==
  [i \in DOMAIN cs |-> IF cs[i].prom = id THEN [cs[i] EXCEPT !.outcome = outcome] ELSE cs[i]]

\* Settlement of item id: task.resolve / task.reject, the finally block of
\* executeTranslationTask (activeTranslations--, processQueueIterative), then,
\* in the same microtask checkpoint, the continuation of translate: the result
\* cache is written on success and the promise cache entry is deleted.
Settle(id, outcome) ==
  LET key == getKey("ja", "zh", promises[id].text)
      ps1 == [i \in DOMAIN promises \ {id} |-> promises[i]]
      r == processQueueIterative(translationQueue, activeTranslations - 1, maxConcurrent)
  IN /\ ApplyPool(r, ps1)
     /\ IF outcome.state = "resolved"
          THEN DoCacheSet(key, outcome.value)
          ELSE UNCHANGED cacheVars
     /\ promiseCache' = MapDelete(promiseCache, key)
     /\ callers' = Deliver(callers, id, outcome)
     /\ firstOutcome' = IF \E i \in DOMAIN callers : callers[i].prom = id
                          THEN MapPut(firstOutcome, id, outcome)
                          ELSE firstOutcome
     /\ LogOp([NoOp("settle") EXCEPT !.kind = outcome.state, !.id = id,
                                     !.text = promises[id].text,
                                     !.value = outcome.value, !.calls = promises[id].calls])
     /\ UNCHANGED <<variant, ghost, maxConcurrent, nextId, usedTexts>>

\* the catch block counted the failure, the backoff delay (awaited when
\* attempts <= maxAttempts) has elapsed, the loop condition held: next remote call
Retry(id, attempts) ==
  /\ promises' = [promises EXCEPT ![id].attempts = attempts,
                                  ![id].calls = promises[id].calls + 1]
  /\ LogOp(NoOp("retry"))
  /\ UNCHANGED <<variant, ghost, cacheVars, promiseCache, translationQueue,
                 activeTranslations, maxConcurrent, isProcessing, nextId, usedTexts,
                 callers, firstOutcome, dispatchLog>>

\* The remote call of item id answers.  A failure is counted, the backoff
\* delay is awaited (it changes nothing the rest of the program reads) and the
\* loop condition decides between another call and the rejection.
RemoteRespond(id, resp) ==
  /\ id \in DOMAIN promises
  /\ promises[id].stage = "active"
  /\ LET res == ApiResult(variant, promises[id].text, resp)
         n == promises[id].attempts + 1
     IN IF res.ok THEN Settle(id, Resolved(res.value))
        ELSE IF LoopContinues(n) THEN Retry(id, n)
        ELSE Settle(id, Rejected)

----------------------------------------------------------------------------
(* The public operations *)

LangPairs == {<<"ja", "zh">>, <<"en", "zh">>, <<"ja", "en">>}
InputTexts == Texts \cup {EmptyStr, Blank}

\* the one pair the service translates
SupportedPairAny(sourceLanguage, targetLanguage) == TRUE
SupportedPair(sourceLanguage, targetLanguage) == sourceLanguage = "ja" /\ targetLanguage = "zh"

NewPromise(text) == [text |-> text, stage |-> "queued", attempts |-> 0, calls |-> 0]

\* translate, up to its await; maxCalls bounds the calls of one behaviour that
\* create or join a request.  The texts are interchangeable: a text submitted
\* for the first time is the lowest-numbered one not yet submitted.
translate(sourceLanguage, targetLanguage, text, maxCalls) ==
  LET key == getKey(sourceLanguage, targetLanguage, text)
      cachedResult == LRUGetValue(resultCache, key)
      op == [NoOp("translate") EXCEPT !.text = text]
  IN IF ~SupportedPair(sourceLanguage, targetLanguage)
       THEN /\ LogOp([op EXCEPT !.kind = "unsupported"])
            /\ UNCHANGED <<variant, ghost, cacheVars, promiseCache, maxConcurrent, nextId,
                           usedTexts, callers, firstOutcome, poolVars>>
     ELSE IF TrimIsEmpty(text)
       THEN /\ LogOp([op EXCEPT !.kind = "blank", !.value = text])
            /\ UNCHANGED <<variant, ghost, cacheVars, promiseCache, maxConcurrent, nextId,
                           usedTexts, callers, firstOutcome, poolVars>>
     ELSE IF Truthy(cachedResult)
       THEN /\ DoCacheGet(key)
            /\ LogOp([op EXCEPT !.kind = "hit", !.value = cachedResult])
            /\ UNCHANGED <<variant, ghost, promiseCache, maxConcurrent, nextId,
                           usedTexts, callers, firstOutcome, poolVars>>
     ELSE IF HasPending(key)
       THEN /\ nextId - 1 + Len(callers) < maxCalls
            /\ DoCacheGet(key)
            /\ callers' = Append(callers, [text |-> text, prom |-> promiseCache[key],
                                           outcome |-> Pending])
            /\ LogOp([op EXCEPT !.kind = "attached"])
            /\ UNCHANGED <<variant, ghost, promiseCache, maxConcurrent, nextId,
                           usedTexts, firstOutcome, poolVars>>
     ELSE /\ nextId - 1 + Len(callers) < maxCalls
          /\ text[2] <= usedTexts + 1
          /\ usedTexts' = Max(usedTexts, text[2])
          /\ DoCacheGet(key)
          /\ ApplyPool(startProcessingQueue(Append(translationQueue, nextId),
                                            activeTranslations, maxConcurrent, isProcessing),
                       [i \in DOMAIN promises \cup {nextId} |->
                          IF i = nextId THEN NewPromise(text) ELSE promises[i]])
          /\ promiseCache' = MapPut(promiseCache, key, nextId)
          /\ nextId' = nextId + 1
          /\ LogOp([op EXCEPT !.kind = "created"])
          /\ UNCHANGED <<variant, ghost, maxConcurrent, callers, firstOutcome>>

Translate(sl, tl, text) == translate(sl, tl, text, MaxCalls)

\* Math.max(1, Math.min(50, concurrent))
ClampBelow(concurrent) == Max(1, concurrent)
Clamp(concurrent) == Max(1, Min(50, concurrent))

setMaxConcurrent(concurrent) ==
  /\ maxConcurrent' = Clamp(concurrent)
  /\ ApplyPool(startProcessingQueue(translationQueue, activeTranslations,
                                    Clamp(concurrent), isProcessing),
               promises)
  /\ LogOp([NoOp("setMaxConcurrent") EXCEPT !.value = concurrent])
  /\ UNCHANGED <<variant, ghost, cacheVars, promiseCache, nextId, usedTexts, callers,
                 firstOutcome>>

getQueueStatus ==
  [queued |-> Len(translationQueue), active |-> activeTranslations,
   maxConcurrent |-> maxConcurrent, isProcessing |-> isProcessing]

getCacheStats == [size |-> LRUSize(resultCache), maxSize |-> 1000]

clearCache ==
  /\ DoCacheClear
  /\ LogOp(NoOp("clearCache"))
  /\ UNCHANGED <<variant, ghost, promiseCache, maxConcurrent, nextId, usedTexts,
                 callers, firstOutcome, poolVars>>

----------------------------------------------------------------------------
(* Initial state: a freshly constructed TranslationService *)

\* no translateBatch call was made yet
NoBatch == [state |-> "none", failure |-> "", texts |-> <<>>, results |-> <<>>, tasks |-> <<>>,
            i |-> 0, dyn |-> 0, size |-> 0, wait |-> <<>>, got |-> <<>>, submitted |-> {}]

Fresh ==
  /\ variant \in {"service", "hook"}
  /\ resultCache = LRUClear
  /\ promiseCache = EmptyMap
  /\ translationQueue = <<>>
  /\ activeTranslations = 0
  /\ maxConcurrent = 40
  /\ isProcessing = FALSE
  /\ promises = EmptyMap
  /\ nextId = 1
  /\ usedTexts = 0
  /\ callers = <<>>
  /\ firstOutcome = EmptyMap
  /\ recency = <<>>
  /\ lastCache = [op |-> "init", key |-> NoKey, evicted |-> NoKey, lru |-> NoKey,
                  sizeBefore |-> 0, hadKey |-> FALSE]
  /\ lastOp = NoOp("init")
  /\ dispatchLog = <<>>
  /\ todo = <<>>
  /\ batch = NoBatch
  /\ batchNo = 0
  /\ sessions = <<>>
  /\ isCancelledRef = FALSE
  /\ progressRef = [completed |-> 0, total |-> 0]
  /\ isTranslating = FALSE
  /\ translationCacheRef = EmptyMap
  /\ errorCounts = EmptyMap

----------------------------------------------------------------------------
(* The scheduler under any interleaving of its operations *)

Init == Fresh /\ ghost = "none" /\ longTexts = {}

ConcurrentInputs == {0, 2, 40}

Next ==
  \/ \E p \in LangPairs : \E text \in InputTexts :
        Translate(p[1], p[2], text) /\ UNCHANGED clientVars
  \/ \E id \in DOMAIN promises : \E resp \in Responses :
        RemoteRespond(id, resp) /\ UNCHANGED clientVars
  \/ \E n \in ConcurrentInputs : setMaxConcurrent(n) /\ UNCHANGED clientVars
  \/ clearCache /\ UNCHANGED clientVars

Spec == Init /\ [][Next]_vars

----------------------------------------------------------------------------
(* Claims about the scheduler *)

Live(id) == id \in DOMAIN promises
KeyOf(text) == getKey("ja", "zh", text)

\* C1: for every key at most one request is outstanding (queued, or dispatched
\* and not yet settled) at any instant, also when further translate calls for
\* the key arrive before the first one settles.
OneOutstandingPerKey ==
  \A t \in Texts : Cardinality({id \in DOMAIN promises : promises[id].text = t}) <= 1

\* a second translate(k) arrived while the first request for k was outstanding
JoinedWhileOutstanding ==
  \E i \in DOMAIN callers : Live(callers[i].prom) /\ callers[i].outcome = Pending

\* C2: while a request is pending for a key, no step creates a new queue item
\* for that key; a call that joined the pending request is bound to it and
\* receives the outcome the creating call receives, success or failure.
SharedOutcome ==
  /\ [][\A id \in DOMAIN promises' \ DOMAIN promises :
          KeyOf(promises'[id].text) \notin DOMAIN promiseCache]_vars
  /\ [](\A i \in DOMAIN callers :
          IF callers[i].outcome = Pending
            THEN /\ Live(callers[i].prom)
                 /\ promises[callers[i].prom].text = callers[i].text
                 /\ MapGet(promiseCache, KeyOf(callers[i].text)) = callers[i].prom
            ELSE /\ ~Live(callers[i].prom)
                 /\ callers[i].prom \in DOMAIN firstOutcome
                 /\ callers[i].outcome = firstOutcome[callers[i].prom])

\* a joined call has received the failure of the shared request
JoinedCallRejected ==
  \E i \in DOMAIN callers : callers[i].outcome = Rejected

\* C3 as stated: the active count never exceeds maxConcurrent
ActiveWithinLimit == activeTranslations <= maxConcurrent

\* C3 amended: a step raises the active count only up to the limit in force
\* after it, so the count exceeds maxConcurrent only as far as a lowering of
\* the limit left it there.
DispatchWithinLimit ==
  [][activeTranslations' > activeTranslations => activeTranslations' <= maxConcurrent']_vars

\* the limit was lowered below the number of items in flight
LoweredBelowActive == activeTranslations > maxConcurrent /\ maxConcurrent = 1

\* C4: no state between operations has a queued item and a free slot
NeverIdleWithWork ==
  ~(translationQueue # <<>> /\ activeTranslations < maxConcurrent)

\* C5: a setMaxConcurrent call that raises the limit while items are queued
\* dispatches the head items, in order, until the limit is reached or the
\* queue is empty.
RaiseDispatchesQueued ==
  [][(maxConcurrent' > maxConcurrent /\ translationQueue # <<>>) =>
       LET n == Min(Len(translationQueue), Max(0, maxConcurrent' - activeTranslations))
       IN /\ activeTranslations' = activeTranslations + n
          /\ dispatchLog' = dispatchLog \o SubSeq(translationQueue, 1, n)
          /\ translationQueue' = SubSeq(translationQueue, n + 1, Len(translationQueue))]_vars

\* C6: items are dispatched in the order they were enqueued (ids are given in
\* enqueue order): the dispatch log is increasing and every queued item was
\* enqueued after every dispatched one.
FifoDispatch ==
  /\ \A i, j \in DOMAIN dispatchLog : i < j => dispatchLog[i] < dispatchLog[j]
  /\ \A i, j \in DOMAIN translationQueue : i < j => translationQueue[i] < translationQueue[j]
  /\ \A i \in DOMAIN dispatchLog : \A j \in DOMAIN translationQueue :
        dispatchLog[i] < translationQueue[j]

\* three items were dispatched and a later one settled before an earlier one
SettledOutOfOrder ==
  /\ Len(dispatchLog) >= 3
  /\ \E i, j \in DOMAIN dispatchLog : i < j /\ Live(dispatchLog[i]) /\ ~Live(dispatchLog[j])

----------------------------------------------------------------------------
(* The cache on its own: get, set and clear called directly *)

InitCache == Fresh /\ ghost = "cache" /\ longTexts = {}

CacheKeys == {getKey("ja", "zh", t) : t \in Texts}
CacheValues(key) == {Tr(key[3]), key[3], EmptyStr}

CacheGet(key) ==
  /\ DoCacheGet(key)
  /\ UNCHANGED <<variant, ghost, schedVars, clientVars>>

CacheSet(key, v) ==
  /\ DoCacheSet(key, v)
  /\ UNCHANGED <<variant, ghost, schedVars, clientVars>>

CacheClear ==
  /\ DoCacheClear
  /\ UNCHANGED <<variant, ghost, schedVars, clientVars>>

CacheNext ==
  \/ \E key \in CacheKeys : CacheGet(key)
  \/ \E key \in CacheKeys : \E v \in CacheValues(key) : CacheSet(key, v)
  \/ CacheClear

SpecCache == InitCache /\ [][CacheNext]_vars

\* C8: the cache never holds more than maxSize entries (and its keys array
\* lists exactly them); inserting a new key at capacity evicts exactly one
\* entry, which a get no longer finds.
CacheBounded ==
  /\ LRUSize(resultCache) <= maxSize
  /\ Len(resultCache.keys) = LRUSize(resultCache)
  /\ (lastCache.op = "set" /\ ~lastCache.hadKey /\ lastCache.sizeBefore = maxSize) =>
       /\ lastCache.evicted # NoKey
       /\ lastCache.evicted # lastCache.key
       /\ LRUGetValue(resultCache, lastCache.evicted) = Undefined
       /\ LRUSize(resultCache) = maxSize

\* an insertion into the full cache has evicted an entry
EvictedAtCapacity ==
  lastCache.op = "set" /\ lastCache.sizeBefore = maxSize /\ lastCache.evicted # NoKey

\* C9: the keys array is the recency order of the cached keys (every get that
\* finds the key and every set moves it to the front), and the entry an
\* insertion evicts is the one accessed least recently.
TrueLRU ==
  /\ resultCache.keys = recency
  /\ (lastCache.op = "set" /\ lastCache.evicted # NoKey) => lastCache.evicted = lastCache.lru

----------------------------------------------------------------------------
(* setMaxConcurrent(1), then five distinct texts submitted one after another, *)
(* every remote call answering in the end                                     *)

SerialStart ==
  /\ maxConcurrent # 1
  /\ nextId = 1
  /\ setMaxConcurrent(1)
  /\ UNCHANGED clientVars

SerialSubmit ==
  /\ maxConcurrent = 1
  /\ translate("ja", "zh", <<"text", nextId>>, SerialTexts)
  /\ UNCHANGED clientVars

SerialRespond ==
  \E id \in DOMAIN promises : \E resp \in Responses :
    RemoteRespond(id, resp) /\ UNCHANGED clientVars

SerialNext == SerialStart \/ SerialSubmit \/ SerialRespond

SpecSerial == Init /\ [][SerialNext]_vars /\ WF_vars(SerialRespond)

\* C7: with the limit at 1 at most one item is in flight, an item is
\* dispatched only once every item dispatched before it has settled, and every
\* submitted item is dispatched in the end.
OneAtATime ==
  /\ [](activeTranslations <= 1)
  /\ [][Len(dispatchLog') > Len(dispatchLog) =>
          /\ Len(dispatchLog') = Len(dispatchLog) + 1
          /\ \A i \in DOMAIN dispatchLog : dispatchLog[i] \notin DOMAIN promises']_vars
  /\ \A n \in 1..SerialTexts :
        (nextId > n) ~> (\E i \in DOMAIN dispatchLog : dispatchLog[i] = n)

\* all the texts of the scenario were submitted and dispatched
AllSerialDispatched == maxConcurrent = 1 /\ Len(dispatchLog) = SerialTexts

----------------------------------------------------------------------------
(* The retry loop, with the settlements recorded *)

InitRetry == Fresh /\ ghost = "ops" /\ longTexts = {}

RetryNext ==
  \/ \E p \in LangPairs : \E text \in InputTexts :
        translate(p[1], p[2], text, RetryCalls) /\ UNCHANGED clientVars
  \/ \E id \in DOMAIN promises : \E resp \in Responses :
        RemoteRespond(id, resp) /\ UNCHANGED clientVars

SpecRetry == InitRetry /\ [][RetryNext]_vars

\* C10: an item is rejected only after exactly maxAttempts + 1 remote calls
\* that all failed; an item whose call succeeds is resolved at that call, which
\* is its last one.
RetryBudget ==
  /\ \A id \in DOMAIN promises :
        promises[id].stage = "active" =>
          /\ promises[id].calls = promises[id].attempts + 1
          /\ promises[id].calls <= maxAttempts + 1
  /\ lastOp.op = "settle" =>
        /\ ~Live(lastOp.id)
        /\ lastOp.kind = "rejected" => lastOp.calls = maxAttempts + 1
        /\ lastOp.kind = "resolved" => lastOp.calls \in 1..(maxAttempts + 1)

\* an item was rejected after its retries were used up
RetriesExhausted == lastOp.op = "settle" /\ lastOp.kind = "rejected"

\* C19: a translate call for a key, made right after the request for that key
\* resolved, is a hit of the result cache that returns the value the first call
\* returned, and it creates no queue item and no remote call.
SecondCallFromCache ==
  [][(/\ lastOp.op = "settle" /\ lastOp.kind = "resolved"
      /\ lastOp'.op = "translate" /\ lastOp'.text = lastOp.text
      /\ lastOp'.kind # "unsupported")
       => /\ lastOp'.kind = "hit"
          /\ lastOp'.value = lastOp.value
          /\ nextId' = nextId
          /\ poolVars' = poolVars]_vars

\* C20: the promise cache holds exactly the keys of the unsettled requests, so
\* a settled request leaves no entry; the settling step writes the returned
\* text into the result cache on success and leaves the cache alone on failure.
SettleClearsPending ==
  /\ [](\A key \in DOMAIN promiseCache :
          Live(promiseCache[key]) /\ KeyOf(promises[promiseCache[key]].text) = key)
  /\ [][\A id \in DOMAIN promises \ DOMAIN promises' :
          LET key == KeyOf(promises[id].text)
          IN /\ key \in DOMAIN promiseCache
             /\ key \notin DOMAIN promiseCache'
             /\ lastOp'.op = "settle" /\ lastOp'.id = id
             /\ lastOp'.kind = "resolved" =>
                  MapGet(resultCache'.cache, key) = lastOp'.value
             /\ lastOp'.kind = "rejected" => resultCache' = resultCache]_vars

\* a request resolved: its key is cached and no longer pending
SettledAndCached ==
  /\ lastOp.op = "settle" /\ lastOp.kind = "resolved"
  /\ KeyOf(lastOp.text) \notin DOMAIN promiseCache
  /\ MapGet(resultCache.cache, KeyOf(lastOp.text)) = lastOp.value
  /\ resultCache.cache # EmptyMap

----------------------------------------------------------------------------
(* Clients of the service.  A task (a call from outside, a remote answer, a *)
(* timer) runs to its end before the next one starts: `todo` lists what is  *)
(* left of the running task, the synchronous steps and then the promise     *)
(* continuations they scheduled, in order.                                  *)

Step(name, s, idx, outcome) == [step |-> name, s |-> s, idx |-> idx, outcome |-> outcome]

\* the request a translate call just made waits on: the one it created, the
\* one it joined, 0 when the call was answered without one
CallProm(key) ==
  IF lastOp'.kind = "created" THEN nextId
  ELSE IF lastOp'.kind = "attached" THEN promiseCache[key]
  ELSE 0

\* the continuation of a caller whose translate call was answered at once
\* (result cache hit, blank text), to run when the synchronous steps are over
Immediate(name, s, idx, key) ==
  IF CallProm(key) = 0
    THEN <<Step(name, s, idx, Resolved(lastOp'.value))>>
    ELSE <<>>

\* texts are submitted lowest-unused-first: a list may be passed when its new
\* texts appear in that order
RECURSIVE FirstUseInOrder(_, _)
FirstUseInOrder(texts, used) ==
  IF texts = <<>> THEN TRUE
  ELSE /\ Head(texts)[2] <= used + 1
       /\ FirstUseInOrder(Tail(texts), Max(used, Head(texts)[2]))

----------------------------------------------------------------------------
(* TranslationService.translateBatch *)

MaxBatchLen == 2       \* texts of one translateBatch call
MaxBatches == 2        \* translateBatch calls of one behaviour
BatchCalls == 5        \* translate calls of one behaviour that create or join a request
LongBatchLen == 5      \* texts of the longest list passed
baseBatchSize == 50
maxCharsPerBatch == 10000

\* tasks.reduce((sum, task) => sum + task.length, 0), over the texts of the tasks
RECURSIVE SumLength(_)
SumLength(texts) ==
  IF texts = <<>> THEN 0 ELSE TextLength(Head(texts)) + SumLength(Tail(texts))

\* Math.floor(Math.sqrt(n) * 5)
FloorSqrtTimes5(n) == CHOOSE r \in 0..(5 * n) : r * r <= 25 * n /\ (r + 1) * (r + 1) > 25 * n

\* Math.floor(maxCharsPerBatch / Math.max(1, totalChars / tasks.length || 1))
CharQuota(totalChars, ntasks) ==
  IF ntasks = 0 \/ totalChars <= ntasks
    THEN maxCharsPerBatch
    ELSE (maxCharsPerBatch * ntasks) \div totalChars

DynamicBatchSizeNoFloor(ntexts, totalChars, ntasks) ==
  Min(baseBatchSize, Min(FloorSqrtTimes5(ntexts), CharQuota(totalChars, ntasks)))
DynamicBatchSize(ntexts, totalChars, ntasks) ==
  Max(10, Min(baseBatchSize, Min(FloorSqrtTimes5(ntexts), CharQuota(totalChars, ntasks))))

EffectiveBatchSize(dynamicBatchSize, batchCharCount) ==
  IF batchCharCount > maxCharsPerBatch
    THEN Max(1, (dynamicBatchSize * maxCharsPerBatch) \div batchCharCount)
    ELSE dynamicBatchSize

\* batch.slice(0, effectiveBatchSize): how many tasks of the sub-batch are submitted
ActualBatch(batchLen, effectiveBatchSize) == Min(batchLen, effectiveBatchSize)

\* Promise.all: whether the rejection of one member rejects the whole
AllRejects(outcome) == outcome.state = "rejected"

TextsOf(texts, tasks) == [k \in DOMAIN tasks |-> texts[tasks[k]]]

\* translateBatch up to the scan of the cache: the language check, the
\* results array, then one cache lookup per text
translateBatch(texts, sourceLanguage, targetLanguage) ==
  /\ todo = <<>>
  /\ batch.state \in {"none", "resolved", "rejected"}
  /\ batchNo < MaxBatches
  /\ nextId - 1 + Len(callers) + Len(texts) <= BatchCalls
  /\ FirstUseInOrder(texts, usedTexts)
  /\ batchNo' = batchNo + 1
  /\ IF ~SupportedPair(sourceLanguage, targetLanguage)
       THEN /\ batch' = [NoBatch EXCEPT !.state = "rejected", !.failure = "unsupported",
                                        !.texts = texts]
            /\ todo' = <<>>
       ELSE /\ batch' = [NoBatch EXCEPT !.state = "running", !.texts = texts,
                                        !.results = [i \in DOMAIN texts |-> Undefined]]
            /\ todo' = [i \in DOMAIN texts |-> Step("scan", batchNo + 1, i, Pending)]
                         \o <<Step("loop", batchNo + 1, 0, Pending)>>
  /\ UNCHANGED <<serviceVars, longTexts, errorCounts, hookVars>>

\* one round of the scan: a truthy cached value fills the slot, anything else
\* makes a task
BatchScan ==
  /\ todo # <<>>
  /\ Head(todo).step = "scan"
  /\ LET idx == Head(todo).idx
         key == getKey("ja", "zh", batch.texts[idx])
         cachedResult == LRUGetValue(resultCache, key)
     IN /\ DoCacheGet(key)
        /\ batch' = IF Truthy(cachedResult)
                      THEN [batch EXCEPT !.results[idx] = cachedResult]
                      ELSE [batch EXCEPT !.tasks = Append(@, idx)]
  /\ todo' = Tail(todo)
  /\ UNCHANGED <<variant, ghost, schedVars, longTexts, errorCounts, batchNo, hookVars>>

\* the head of the for loop over the tasks: return the results, or cut the next
\* sub-batch and map it to translate calls.  The copy in the hook file names
\* an undeclared variable (batchSize) in the loop body: a ReferenceError.
BatchLoop ==
  /\ todo # <<>>
  /\ Head(todo).step = "loop"
  /\ LET n == Len(batch.tasks)
         dyn == DynamicBatchSize(Len(batch.texts), SumLength(TextsOf(batch.texts, batch.tasks)), n)
         cur == SubSeq(batch.tasks, batch.i + 1, Min(batch.i + dyn, n))
         eff == EffectiveBatchSize(dyn, SumLength(TextsOf(batch.texts, cur)))
         actual == ActualBatch(Len(cur), eff)
     IN IF batch.i >= n
          THEN /\ batch' = [batch EXCEPT !.state = "resolved"]
               /\ todo' = Tail(todo)
        ELSE IF variant = "hook"
          THEN /\ batch' = [batch EXCEPT !.state = "rejected", !.failure = "reference"]
               /\ todo' = Tail(todo)
        ELSE /\ batch' = [batch EXCEPT !.dyn = dyn, !.size = eff,
                                       !.wait = [k \in 1..actual |-> 0],
                                       !.got = [k \in 1..actual |-> Undefined]]
             /\ todo' = Tail(todo) \o [k \in 1..actual |-> Step("bsubmit", batchNo, k, Pending)]
  /\ UNCHANGED <<serviceVars, longTexts, errorCounts, batchNo, hookVars>>

\* actualBatch.map: the translate call of one task
BatchSubmit ==
  /\ todo # <<>>
  /\ Head(todo).step = "bsubmit"
  /\ LET k == Head(todo).idx
         text == batch.texts[batch.tasks[batch.i + k]]
         key == getKey("ja", "zh", text)
     IN /\ translate("ja", "zh", text, BatchCalls)
        /\ batch' = [batch EXCEPT !.wait[k] = CallProm(key),
                                  !.submitted = @ \cup {batch.tasks[batch.i + k]}]
        /\ todo' = Tail(todo) \o Immediate("bcontinue", batchNo, k, key)
  /\ UNCHANGED <<longTexts, errorCounts, batchNo, hookVars>>

\* a translate call of the sub-batch has settled.  A rejection rejects
\* Promise.all and with it translateBatch; once all have resolved the results
\* are written to their slots and the loop goes on, after a 100 ms delay when
\* i + effectiveBatchSize < tasks.length.
BatchContinue ==
  /\ todo # <<>>
  /\ Head(todo).step = "bcontinue"
  /\ LET k == Head(todo).idx
         outcome == Head(todo).outcome
         got == [batch.got EXCEPT ![k] = outcome.value]
         results == [i \in DOMAIN batch.results |->
                       IF \E j \in DOMAIN got : batch.tasks[batch.i + j] = i
                         THEN got[CHOOSE j \in DOMAIN got : batch.tasks[batch.i + j] = i]
                         ELSE batch.results[i]]
     IN IF Head(todo).s # batchNo \/ batch.state # "running"
          THEN /\ batch' = batch
               /\ todo' = Tail(todo)
        ELSE IF AllRejects(outcome)
          THEN /\ batch' = [batch EXCEPT !.state = "rejected", !.failure = "item"]
               /\ todo' = Tail(todo)
        ELSE IF \E j \in DOMAIN got : got[j] = Undefined
          THEN /\ batch' = [batch EXCEPT !.got = got]
               /\ todo' = Tail(todo)
        ELSE IF batch.i + batch.size < Len(batch.tasks)
          THEN /\ batch' = [batch EXCEPT !.got = got, !.results = results, !.state = "delay"]
               /\ todo' = Tail(todo)
        ELSE /\ batch' = [batch EXCEPT !.got = got, !.results = results,
                                       !.i = batch.i + batch.dyn]
             /\ todo' = Tail(todo) \o <<Step("loop", batchNo, 0, Pending)>>
  /\ UNCHANGED <<serviceVars, longTexts, errorCounts, batchNo, hookVars>>

\* the 100 ms timer fires: i += dynamicBatchSize, back to the loop head
BatchResume ==
  /\ todo = <<>>
  /\ batch.state = "delay"
  /\ batch' = [batch EXCEPT !.state = "running", !.i = batch.i + batch.dyn]
  /\ todo' = <<Step("loop", batchNo, 0, Pending)>>
  /\ UNCHANGED <<serviceVars, longTexts, errorCounts, batchNo, hookVars>>

\* the continuations of the sub-batch's calls that wait on request id
BatchConts(id, outcome) ==
  IF batch.state # "running" THEN <<>>
  ELSE LET ks == SelectSeq([k \in DOMAIN batch.wait |-> k],
                           LAMBDA k : batch.wait[k] = id /\ batch.got[k] = Undefined)
       IN [j \in DOMAIN ks |-> Step("bcontinue", batchNo, ks[j], outcome)]

----------------------------------------------------------------------------
(* useTranslation: translateSubtitles and cancelTranslation.  Every call of *)
(* translateSubtitles is a session with its own records, loop index and     *)
(* cacheStats; the refs of the hook are shared by all of them.              *)

MaxSessions == 2       \* translateSubtitles calls of one behaviour
SessionCalls == 9      \* translate calls of one behaviour that create or join a request

WaveSize == 5          \* maxConcurrent of translateSubtitles, its batchSize
MaxRecords == WaveSize + 1

\* the subtitle lists passed: one record, a duplicate inside one wave, and a
\* list one record longer than a wave
SessionInputs ==
  {<<TextA>>, <<TextA, TextA, TextB>>,
   [k \in 1..MaxRecords |-> IF k < MaxRecords THEN TextA ELSE TextB]}

TargetLanguages == {"zh", "en"}

\* the k-th record of the list passed: its number, its times and its text
Line(k, text) == [id |-> k, startTime |-> 2 * k, endTime |-> 2 * k + 1, text |-> text]

\* the closure of a translateSubtitles call after its reset block
NewSession(subtitles, targetLanguage) ==
  [orig |-> subtitles,                               \* ghost: the texts passed
   texts |-> subtitles,                              \* translatedSubtitles[k].text
   targetLanguage |-> targetLanguage,
   i |-> 0,                                          \* the loop index
   item |-> [k \in DOMAIN subtitles |-> "none"],     \* where translateBatch(k, text) stands
   arg |-> [k \in DOMAIN subtitles |-> Undefined],   \* its text argument
   prom |-> [k \in DOMAIN subtitles |-> 0],          \* the request it awaits
   failed |-> [k \in DOMAIN subtitles |-> FALSE],    \* ghost: its catch block ran
   hits |-> 0, total |-> 0,                          \* cacheStats
   state |-> "running",                              \* "ended" once the function returned
   called |-> 0,                                     \* ghost: onTranslated calls made
   delivered |-> <<>>,                               \* ghost: the list of the last such call
   cancelled |-> FALSE,                              \* ghost: cancelled while running
   started |-> nextId,                               \* ghost: next request id at the start
   hadCache |-> DOMAIN translationCacheRef]          \* ghost: session cache keys at the start

\* subtitles.slice(i, i + batchSize), as indices
WaveToEnd(sess) == {k \in DOMAIN sess.orig : sess.i < k}
Wave(sess) == {k \in DOMAIN sess.orig : sess.i < k /\ k <= sess.i + WaveSize}

\* Promise.all(batchPromises) resolves
WaveDone(sess) == \A k \in Wave(sess) : sess.item[k] = "done"

WaveSteps(s, sess) ==
  [j \in 1..Cardinality(Wave(sess)) |-> Step("submit", s, sess.i + j, Pending)]

\* [...subtitles] with the texts assigned so far
translatedSubtitles(sess) ==
  [k \in DOMAIN sess.orig |-> [Line(k, sess.orig[k]) EXCEPT !.text = sess.texts[k]]]

\* after a step of session s that finished an item: the loop goes on once the
\* whole wave is finished
AfterItemAlways(s, sess) == <<Step("wave", s, 0, Pending)>>
AfterItem(s, sess) ==
  IF (\A k \in Wave(sess) : sess.item[k] # "none") /\ WaveDone(sess)
    THEN <<Step("wave", s, 0, Pending)>>
    ELSE <<>>

Count(p) == [p EXCEPT !.completed = @ + 1]

\* the catch block: translatedSubtitles[index].text = text
OnFailureEmpty(text) == EmptyStr
OnFailure(text) == text

translateSubtitles(subtitles, targetLanguage) ==
  /\ todo = <<>>
  /\ Len(subtitles) > 0
  /\ Len(sessions) < MaxSessions
  /\ nextId - 1 + Len(callers) + Len(subtitles) <= SessionCalls
  /\ FirstUseInOrder(subtitles, usedTexts)
  /\ isTranslating' = TRUE
  /\ isCancelledRef' = FALSE
  /\ progressRef' = [completed |-> 0, total |-> Len(subtitles)]
  /\ sessions' = Append(sessions, NewSession(subtitles, targetLanguage))
  /\ todo' = WaveSteps(Len(sessions) + 1, NewSession(subtitles, targetLanguage))
  /\ UNCHANGED <<serviceVars, batchVars, errorCounts, translationCacheRef>>

cancelTranslation ==
  /\ todo = <<>>
  /\ isCancelledRef' = TRUE
  /\ isTranslating' = FALSE
  /\ progressRef' = [completed |-> 0, total |-> 0]
  /\ sessions' = [s \in DOMAIN sessions |->
                    IF sessions[s].state = "running"
                      THEN [sessions[s] EXCEPT !.cancelled = TRUE]
                      ELSE sessions[s]]
  /\ UNCHANGED <<serviceVars, batchVars, errorCounts, translationCacheRef, todo>>

\* translateBatch(index, text) of a session, up to its await
SessionSubmit ==
  /\ todo # <<>>
  /\ Head(todo).step = "submit"
  /\ LET s == Head(todo).s
         k == Head(todo).idx
         sess == sessions[s]
         text == sess.texts[k]
         cacheKey == <<text, sess.targetLanguage>>
         key == getKey("ja", "zh", text)
     IN IF isCancelledRef
          THEN /\ sessions' = [sessions EXCEPT ![s].item[k] = "done", ![s].arg[k] = text]
               /\ todo' = Tail(todo) \o AfterItem(s, sessions'[s])
               /\ UNCHANGED <<serviceVars, progressRef, translationCacheRef>>
        ELSE IF cacheKey \in DOMAIN translationCacheRef
          THEN /\ sessions' = [sessions EXCEPT ![s].item[k] = "done", ![s].arg[k] = text,
                                               ![s].texts[k] = translationCacheRef[cacheKey],
                                               ![s].hits = @ + 1, ![s].total = @ + 1]
               /\ progressRef' = Count(progressRef)
               /\ todo' = Tail(todo) \o AfterItem(s, sessions'[s])
               /\ UNCHANGED <<serviceVars, translationCacheRef>>
        ELSE /\ translate("ja", "zh", text, SessionCalls)
             /\ sessions' = [sessions EXCEPT ![s].item[k] = "waiting", ![s].arg[k] = text,
                                             ![s].prom[k] = CallProm(key),
                                             ![s].total = @ + 1]
             /\ todo' = Tail(todo) \o Immediate("continue", s, k, key)
             /\ UNCHANGED <<progressRef, translationCacheRef>>
  /\ UNCHANGED <<batchVars, errorCounts, isCancelledRef, isTranslating>>

\* translateBatch(index, text) of a session, after its await
SessionContinue ==
  /\ todo # <<>>
  /\ Head(todo).step = "continue"
  /\ LET s == Head(todo).s
         k == Head(todo).idx
         outcome == Head(todo).outcome
         sess == sessions[s]
         text == sess.arg[k]
         cacheKey == <<text, sess.targetLanguage>>
     IN IF outcome.state = "rejected"
          THEN /\ sessions' = [sessions EXCEPT ![s].item[k] = "done",
                                               ![s].texts[k] = OnFailure(text),
                                               ![s].failed[k] = TRUE]
               /\ UNCHANGED <<progressRef, translationCacheRef>>
        ELSE IF isCancelledRef
          THEN /\ sessions' = [sessions EXCEPT ![s].item[k] = "done"]
               /\ UNCHANGED <<progressRef, translationCacheRef>>
        ELSE /\ sessions' = [sessions EXCEPT ![s].item[k] = "done",
                                             ![s].texts[k] = outcome.value]
             /\ translationCacheRef' = MapPut(translationCacheRef, cacheKey, outcome.value)
             /\ progressRef' = Count(progressRef)
  /\ todo' = Tail(todo) \o AfterItem(Head(todo).s, sessions'[Head(todo).s])
  /\ UNCHANGED <<serviceVars, batchVars, errorCounts, isCancelledRef, isTranslating>>

\* the wave loop after Promise.all: the next wave, or the end of the function
SessionWave ==
  /\ todo # <<>>
  /\ Head(todo).step = "wave"
  /\ LET s == Head(todo).s
         sess == sessions[s]
         next == [sess EXCEPT !.i = @ + WaveSize]
     IN IF next.i < Len(sess.orig) /\ ~isCancelledRef
          THEN /\ sessions' = [sessions EXCEPT ![s] = next]
               /\ todo' = Tail(todo) \o WaveSteps(s, next)
               /\ UNCHANGED isTranslating
        ELSE IF ~isCancelledRef
          THEN /\ sessions' = [sessions EXCEPT ![s].state = "ended", ![s].called = @ + 1,
                                               ![s].delivered = translatedSubtitles(sess)]
               /\ isTranslating' = FALSE
               /\ todo' = Tail(todo)
        ELSE /\ sessions' = [sessions EXCEPT ![s].state = "ended"]
             /\ todo' = Tail(todo)
             /\ UNCHANGED isTranslating
  /\ UNCHANGED <<serviceVars, batchVars, errorCounts, isCancelledRef, progressRef, translationCacheRef>>

\* every (session, record) pair, sessions in the order they were started
ItemSlots ==
  [n \in 1..(MaxSessions * MaxRecords) |->
     <<((n - 1) \div MaxRecords) + 1, ((n - 1) % MaxRecords) + 1>>]

\* the continuations of the session items that wait on request id
SessionConts(id, outcome) ==
  LET sel == SelectSeq(ItemSlots,
                       LAMBDA p : /\ p[1] \in DOMAIN sessions
                                  /\ p[2] \in DOMAIN sessions[p[1]].orig
                                  /\ sessions[p[1]].item[p[2]] = "waiting"
                                  /\ sessions[p[1]].prom[p[2]] = id)
  IN [j \in DOMAIN sel |-> Step("continue", sel[j][1], sel[j][2], outcome)]

\* a remote call answers; when that settles the request, the callers awaiting
\* it continue within the same task
ClientRespond(id, resp) ==
  /\ todo = <<>>
  /\ RemoteRespond(id, resp)
  /\ todo' = IF lastOp'.op = "settle"
               THEN LET outcome == [state |-> lastOp'.kind, value |-> lastOp'.value]
                    IN SessionConts(id, outcome) \o BatchConts(id, outcome)
               ELSE <<>>
  /\ UNCHANGED <<batchVars, errorCounts, hookVars>>

ClientResponses == {"ok", "empty", "timeout"}

----------------------------------------------------------------------------
(* translateBatch calls on a fresh service *)

InitBatch == Fresh /\ ghost = "ops" /\ longTexts \in {{}, {TextA}, Texts}

BatchTexts == Texts \cup {Blank}

\* the lists passed: every list of up to MaxBatchLen texts, and one text
\* repeated LongBatchLen times
BatchInputs ==
  UNION {[1..n -> BatchTexts] : n \in 0..MaxBatchLen} \cup {[k \in 1..LongBatchLen |-> TextA]}

BatchNext ==
  \/ \E p \in LangPairs : \E texts \in BatchInputs : translateBatch(texts, p[1], p[2])
  \/ BatchScan
  \/ BatchLoop
  \/ BatchSubmit
  \/ BatchContinue
  \/ BatchResume
  \/ \E id \in DOMAIN promises : \E resp \in ClientResponses : ClientRespond(id, resp)

SpecBatch == InitBatch /\ [][BatchNext]_vars

----------------------------------------------------------------------------
(* Sessions of the hook on a fresh service *)

InitSession == Fresh /\ ghost = "ops" /\ longTexts = {}

\* the application always passes 'zh' as the target language
SessionNext ==
  \/ \E subtitles \in SessionInputs : translateSubtitles(subtitles, "zh")
  \/ cancelTranslation
  \/ SessionSubmit
  \/ SessionContinue
  \/ SessionWave
  \/ \E id \in DOMAIN promises : \E resp \in ClientResponses : ClientRespond(id, resp)

SpecSession == InitSession /\ [][SessionNext]_vars

----------------------------------------------------------------------------
(* Claims about translateBatch *)

\* C11: when translateBatch resolves, the list returned is as long as texts and
\* every slot holds the translation of its text (the text itself for a blank
\* text or when the remote answer was empty), none is left unfilled.
BatchOutputComplete ==
  batch.state = "resolved" =>
    /\ Len(batch.results) = Len(batch.texts)
    /\ \A i \in DOMAIN batch.texts :
          batch.results[i] \in {Tr(batch.texts[i]), batch.texts[i]}

\* C12: no translateBatch call is rejected because the translate call of one
\* of its items was rejected.
ItemFailureIsolated == batch.failure # "item"

----------------------------------------------------------------------------
(* Claims about the sessions *)

NoProgress == [completed |-> 0, total |-> 0]

\* C13: while the cancellation flag is up the progress reads {0, 0}, and
\* onTranslated is never called for a session that was cancelled.
CancelledNeverCompletes ==
  /\ isCancelledRef => progressRef = NoProgress
  /\ \A s \in DOMAIN sessions : sessions[s].cancelled => sessions[s].called = 0

\* C14: a cancelled session starts no further wave and makes no further
\* translate call.
CancelledStartsNothing ==
  [][\A s \in DOMAIN sessions :
       sessions[s].cancelled =>
         /\ sessions'[s].i = sessions[s].i
         /\ sessions'[s].total = sessions[s].total
         /\ \A k \in DOMAIN sessions[s].orig :
               sessions[s].item[k] = "none" => sessions'[s].item[k] = "none"]_vars

\* C15: the continuation of a cancelled session's item, run when its remote
\* result arrives, writes no record text, no session cache entry and no
\* progress.
CancelledResultDiscarded ==
  [][\A s \in DOMAIN sessions :
       (/\ sessions[s].cancelled
        /\ todo # <<>>
        /\ Head(todo).step = "continue"
        /\ Head(todo).s = s)
         => /\ sessions'[s].texts = sessions[s].texts
            /\ translationCacheRef' = translationCacheRef
            /\ progressRef' = progressRef]_vars

\* C16: a record whose translate call was rejected keeps the text it had
\* before the session; a session that was not cancelled ends only with every
\* record handled and onTranslated called once; and between tasks a running
\* session always awaits a call of its current wave.
ItemFailureKeepsSession ==
  \A s \in DOMAIN sessions :
    LET sess == sessions[s]
    IN /\ \A k \in DOMAIN sess.orig : sess.failed[k] => sess.texts[k] = sess.orig[k]
       /\ (sess.state = "ended" /\ ~sess.cancelled) =>
             /\ sess.called = 1
             /\ sess.total = Len(sess.orig)
             /\ \A k \in DOMAIN sess.orig : sess.item[k] = "done"
       /\ (sess.state = "running" /\ todo = <<>>) =>
             \E k \in Wave(sess) : sess.item[k] = "waiting"

\* the records of the first wave failed, the record of the second wave was
\* translated and onTranslated was called
FailedWaveThenTranslated ==
  \E s \in DOMAIN sessions :
    /\ Len(sessions[s].orig) = MaxRecords
    /\ sessions[s].failed[1]
    /\ sessions[s].texts[MaxRecords] = Tr(TextB)
    /\ sessions[s].called = 1
    /\ ~sessions[s].cancelled

----------------------------------------------------------------------------
(* Sessions run one after another, every remote call succeeding *)

NoneRunning == \A s \in DOMAIN sessions : sessions[s].state = "ended"

StubStart ==
  /\ NoneRunning
  /\ \E subtitles \in SessionInputs : \E tl \in TargetLanguages :
        translateSubtitles(subtitles, tl)

StubRespond == \E id \in DOMAIN promises : ClientRespond(id, "ok")

StubNext ==
  \/ StubStart
  \/ SessionSubmit
  \/ SessionContinue
  \/ SessionWave
  \/ StubRespond

SpecStub == InitSession /\ [][StubNext]_vars

Range(f) == {f[k] : k \in DOMAIN f}

\* the requests created while session s ran
RequestsOf(s) ==
  (IF s = Len(sessions) THEN nextId ELSE sessions[s + 1].started) - sessions[s].started

\* the texts of session s that no earlier session had translated
NewTexts(s) == Range(sessions[s].orig) \ UNION {Range(sessions[r].orig) : r \in 1..(s - 1)}

\* C17: with a remote that always succeeds, a finished session has made one
\* remote call per distinct text not translated before (every request gets
\* exactly one call), each record holds the translation of its own text, and
\* the progress of the session that ended last reads total/total.
OneCallPerDistinctText ==
  /\ lastOp.op = "settle" => lastOp.calls = 1
  /\ \A s \in DOMAIN sessions :
        sessions[s].state = "ended" =>
          /\ RequestsOf(s) = Cardinality(NewTexts(s))
          /\ \A k \in DOMAIN sessions[s].orig :
                sessions[s].texts[k] = Tr(sessions[s].orig[k])
          /\ s = Len(sessions) =>
                /\ Len(dispatchLog) = nextId - 1
                /\ promises = EmptyMap
                /\ progressRef = [completed |-> Len(sessions[s].orig),
                                  total |-> Len(sessions[s].orig)]

\* the session over [A, A, B] on the fresh service has ended after two remote calls
DuplicateSharedCall ==
  /\ Len(sessions) = 1
  /\ sessions[1].orig = <<TextA, TextA, TextB>>
  /\ sessions[1].state = "ended"
  /\ Len(dispatchLog) = 2
  /\ progressRef = [completed |-> 3, total |-> 3]

\* C18: a session over [A, A, B] that started with an empty session cache
\* ends with a cache-hit count of 1.
DuplicateCountedAsHit ==
  \A s \in DOMAIN sessions :
    (/\ sessions[s].orig = <<TextA, TextA, TextB>>
     /\ sessions[s].hadCache = {}
     /\ sessions[s].state = "ended")
      => sessions[s].hits = 1

----------------------------------------------------------------------------
(* Further claims about translate and the retry loop *)

\* C21: a translate call ('ja' to 'zh') with the empty string or a
\* whitespace-only text returns that text and changes nothing: no result cache
\* write, no pending entry, no queue item, no dispatch.
BlankShortCircuits ==
  [][(/\ lastOp'.op = "translate"
      /\ lastOp'.text \in {EmptyStr, Blank}
      /\ lastOp'.kind # "unsupported")
       => /\ lastOp'.kind = "blank"
          /\ lastOp'.value = lastOp'.text
          /\ resultCache' = resultCache
          /\ promiseCache' = promiseCache
          /\ nextId' = nextId
          /\ poolVars' = poolVars]_vars

\* a blank text was passed while a request was in flight
BlankWhileBusy ==
  /\ lastOp.op = "translate" /\ lastOp.kind = "blank" /\ lastOp.text = Blank
  /\ activeTranslations > 0

\* C26: a remote answer that is empty or not of the expected shape settles the
\* item as resolved with the original text; it is neither retried nor rejected.
MalformedFallsBack ==
  [][\A id \in DOMAIN promises : \A resp \in {"empty", "malformed"} :
       (RemoteRespond(id, resp) /\ UNCHANGED clientVars)
         => /\ lastOp'.op = "settle"
            /\ lastOp'.kind = "resolved"
            /\ lastOp'.value = promises[id].text]_vars

----------------------------------------------------------------------------
(* translate and translateBatch called with any language pair *)

PairCalls == 3         \* direct translate calls of one behaviour that create or join a request

PairTexts == {TextA, Blank}
PairBatches == {<<TextA>>, <<TextB, TextA>>}

InitPairs == Fresh /\ ghost = "ops" /\ longTexts = {}

PairTranslate(p, text) ==
  /\ todo = <<>>
  /\ translate(p[1], p[2], text, PairCalls)
  /\ UNCHANGED clientVars

PairsNext ==
  \/ \E p \in LangPairs : \E text \in PairTexts : PairTranslate(p, text)
  \/ \E p \in LangPairs : \E texts \in PairBatches : translateBatch(texts, p[1], p[2])
  \/ BatchScan
  \/ BatchLoop
  \/ BatchSubmit
  \/ BatchContinue
  \/ \E id \in DOMAIN promises : \E resp \in ClientResponses : ClientRespond(id, resp)

SpecPairs == InitPairs /\ [][PairsNext]_vars

\* what a rejected call must leave alone
SchedulerUntouched ==
  /\ resultCache' = resultCache
  /\ promiseCache' = promiseCache
  /\ nextId' = nextId
  /\ poolVars' = poolVars

\* C22: a translate or translateBatch call whose pair is not ('ja', 'zh') is
\* rejected as unsupported and changes neither the result cache, the promise
\* cache, the queue nor the active count, and dispatches nothing.
UnsupportedPairRejected ==
  [][\A p \in LangPairs \ {<<"ja", "zh">>} :
       /\ \A text \in PairTexts :
             PairTranslate(p, text) => (lastOp'.kind = "unsupported" /\ SchedulerUntouched)
       /\ \A texts \in PairBatches :
             translateBatch(texts, p[1], p[2])
               => /\ batch'.state = "rejected"
                  /\ batch'.failure = "unsupported"
                  /\ todo' = <<>>
                  /\ SchedulerUntouched]_vars

\* both calls were rejected for their pair while a request was in flight
BothRejectedForPair ==
  /\ batch.failure = "unsupported"
  /\ lastOp.op = "translate" /\ lastOp.kind = "unsupported"
  /\ activeTranslations > 0

----------------------------------------------------------------------------
(* Further claims about the sessions *)

\* C23: a session started with a target language other than 'zh' makes no
\* translate call and hands no item to the scheduler.
ForeignTargetFailsFast ==
  \A s \in DOMAIN sessions :
    sessions[s].targetLanguage # "zh" =>
      /\ sessions[s].total = 0
      /\ \A k \in DOMAIN sessions[s].orig : sessions[s].item[k] = "none"

\* C24: a session that was not cancelled calls onTranslated at most once, and
\* exactly once by the time it has ended; the list passed is as long as the
\* input and its k-th record has the id, startTime and endTime of the k-th
\* input record.
CallbackOnceSameRecords ==
  \A s \in DOMAIN sessions :
    LET sess == sessions[s]
    IN ~sess.cancelled =>
         /\ sess.called = (IF sess.state = "ended" THEN 1 ELSE 0)
         /\ sess.called = 1 =>
              /\ Len(sess.delivered) = Len(sess.orig)
              /\ \A k \in DOMAIN sess.orig :
                    /\ sess.delivered[k].id = Line(k, sess.orig[k]).id
                    /\ sess.delivered[k].startTime = Line(k, sess.orig[k]).startTime
                    /\ sess.delivered[k].endTime = Line(k, sess.orig[k]).endTime

\* a list of three records was delivered with its last text translated
ThreeRecordsDelivered ==
  \E s \in DOMAIN sessions :
    /\ ~sessions[s].cancelled
    /\ sessions[s].called = 1
    /\ Len(sessions[s].delivered) = 3
    /\ sessions[s].delivered[3].id = 3
    /\ sessions[s].delivered[3].text = Tr(TextB)
    /\ sessions[s].delivered[1].text = Tr(TextA)

\* the records of a session that were served from the session cache or
\* translated
Served(sess) == {k \in DOMAIN sess.orig : sess.item[k] = "done" /\ ~sess.failed[k]}

\* C25: while the session started last is running and was not cancelled, every
\* earlier session having ended or been cancelled, completed is the number of
\* its records served from cache or translated so far.
CompletedCountsServed ==
  LET s == Len(sessions)
  IN (/\ s > 0
      /\ sessions[s].state = "running"
      /\ ~sessions[s].cancelled
      /\ \A r \in 1..(s - 1) : sessions[r].cancelled \/ sessions[r].state = "ended")
       => progressRef.completed = Cardinality(Served(sessions[s]))

----------------------------------------------------------------------------
(* setMaxConcurrent called with any integer around its range *)

ClampSpread == 3       \* how far below 1 and above 50 the values passed reach
ClampCalls == 2        \* translate calls of one behaviour that create or join a request

ClampInputs == (1 - ClampSpread)..(50 + ClampSpread)

InitClamp == Fresh /\ ghost = "ops" /\ longTexts = {}

ClampSet(n) == setMaxConcurrent(n) /\ UNCHANGED clientVars

ClampNext ==
  \/ \E n \in ClampInputs : ClampSet(n)
  \/ \E text \in {TextA, TextB} : translate("ja", "zh", text, ClampCalls) /\ UNCHANGED clientVars
  \/ \E id \in DOMAIN promises : RemoteRespond(id, "ok") /\ UNCHANGED clientVars

SpecClamp == InitClamp /\ [][ClampNext]_vars

\* C27: setMaxConcurrent(n) leaves maxConcurrent at 1 for n below 1, at 50 for
\* n above 50 and at n otherwise, and getQueueStatus reports that value.
ClampedIntoRange ==
  [][\A n \in ClampInputs :
       ClampSet(n) =>
         /\ maxConcurrent' = (IF n < 1 THEN 1 ELSE IF n > 50 THEN 50 ELSE n)
         /\ getQueueStatus'.maxConcurrent = maxConcurrent']_vars

\* a value above the range was passed while a request was in flight
ClampedFromAbove ==
  /\ lastOp.op = "setMaxConcurrent"
  /\ lastOp.value > 50
  /\ getQueueStatus.maxConcurrent = 50
  /\ getQueueStatus.active > 0

----------------------------------------------------------------------------
(* Further claims about the scheduler *)

Dispatched == {dispatchLog[j] : j \in DOMAIN dispatchLog}

\* C29: every item is queued, then dispatched, then settled: the queue holds
\* exactly the items not yet dispatched, no item is dispatched twice, an item
\* leaves only after its dispatch and never returns to the queue, and
\* activeTranslations is the number of items dispatched and not yet settled.
ItemLifecycle ==
  /\ [](/\ activeTranslations = Cardinality({id \in DOMAIN promises :
                                               promises[id].stage = "active"})
        /\ activeTranslations >= 0
        /\ \A i, j \in DOMAIN dispatchLog : dispatchLog[i] = dispatchLog[j] => i = j
        /\ \A i, j \in DOMAIN translationQueue :
              translationQueue[i] = translationQueue[j] => i = j
        /\ \A id \in DOMAIN promises :
              /\ promises[id].stage \in {"queued", "active"}
              /\ promises[id].stage = "active" <=> id \in Dispatched
              /\ promises[id].stage = "queued"
                   <=> \E i \in DOMAIN translationQueue : translationQueue[i] = id
        /\ \A id \in 1..(nextId - 1) : id \notin DOMAIN promises => id \in Dispatched)
  /\ [][\A id \in DOMAIN promises :
          /\ id \notin DOMAIN promises' =>
                /\ promises[id].stage = "active"
                /\ activeTranslations' =
                     activeTranslations - 1 + (Len(dispatchLog') - Len(dispatchLog))
          /\ (promises[id].stage = "active" /\ id \in DOMAIN promises') =>
                promises'[id].stage = "active"]_vars

\* one item has settled, others are in flight and one still waits in the queue
SettledActiveAndQueued ==
  /\ Len(translationQueue) > 0
  /\ activeTranslations > 0
  /\ Len(dispatchLog) > activeTranslations

----------------------------------------------------------------------------
(* The scheduler when every remote call answers and every delay elapses *)

LiveCalls == 3         \* translate calls of one behaviour that create or join a request

LiveSubmit(text) == translate("ja", "zh", text, LiveCalls) /\ UNCHANGED clientVars

\* the remote call of item id answers, and the backoff delay after a failed
\* attempt elapses
LiveRespond(id) == \E resp \in Responses : RemoteRespond(id, resp) /\ UNCHANGED clientVars

LiveNext ==
  \/ \E text \in Texts : LiveSubmit(text)
  \/ \E id \in 1..LiveCalls : LiveRespond(id)
  \/ \E n \in ConcurrentInputs : setMaxConcurrent(n) /\ UNCHANGED clientVars

SpecLive ==
  /\ Init
  /\ [][LiveNext]_vars
  /\ \A id \in 1..LiveCalls : WF_vars(LiveRespond(id))

\* C28: every enqueued item is eventually dispatched and settled, whatever
\* submissions, answers and setMaxConcurrent calls are interleaved with it.
EveryItemSettles ==
  \A id \in 1..LiveCalls :
    (id \in DOMAIN promises) ~> (id \notin DOMAIN promises /\ id \in Dispatched)

\* several items were submitted and all have settled with the limit at one
AllSettledUnderLimitOne ==
  /\ nextId > 2
  /\ DOMAIN promises = {}
  /\ maxConcurrent = 1
  /\ Len(dispatchLog) = nextId - 1

----------------------------------------------------------------------------
(* The error statistics of executeTranslationTask (service build) *)

ErrorCalls == 2        \* translate calls of one behaviour that create or join a request

rateLimitPenalty == 2000   \* milliseconds added to the backoff after a rate-limit error

\* calculatedTimeout of translateWithGoogleAPI
calculatedTimeout(text) == Min(5000 + TextLength(text) * 2, 15000)

\* the decimal digits of n contain those of pat, where mod is 10 ^ (digits of pat)
RECURSIVE HasDigits(_, _, _)
HasDigits(n, pat, mod) ==
  IF n < pat THEN FALSE ELSE n % mod = pat \/ HasDigits(n \div 10, pat, mod)

\* the message of the Error thrown by translateWithGoogleAPI: the Latin words
\* in it and the number in it (0 when it has none)
ErrorMessage(text, resp) ==
  IF resp = "timeout" THEN [latin |-> {"ms"}, number |-> calculatedTimeout(text)]
  ELSE IF resp = "http429" THEN [latin |-> {"API"}, number |-> 0]
  ELSE [latin |-> {}, number |-> 503]

\* message.includes(word)
Includes(message, word) == word \in message.latin

\* the branch of the catch block the message selects
Classify(message) ==
  IF Includes(message, "timeout") THEN "timeout"
  ELSE IF HasDigits(message.number, 429, 1000) \/ Includes(message, "rate limit")
    THEN "rateLimit"
  ELSE IF HasDigits(message.number, 50, 100) THEN "serverError"
  ELSE "none"

\* what made the attempt fail
Cause(resp) ==
  IF resp = "timeout" THEN "timeout"
  ELSE IF resp = "http429" THEN "rateLimit"
  ELSE "serverError"

NoCounts == [timeout |-> 0, rateLimit |-> 0, serverError |-> 0]

Bump(c, category) == IF category = "none" THEN c ELSE [c EXCEPT ![category] = @ + 1]

\* the counters of a task: counts is errorCounts, penalty the fixed extra delay
\* awaited so far, thrown whether detailedError was thrown with them; causes
\* and owed are ghosts: the failures by their cause and the extra delay that
\* rate-limit failures call for
NewCounts == [counts |-> NoCounts, penalty |-> 0, thrown |-> FALSE,
              causes |-> NoCounts, owed |-> 0]

Counted(old, text, resp, n) ==
  LET category == Classify(ErrorMessage(text, resp))
  IN [counts |-> Bump(old.counts, category),
      penalty |-> old.penalty +
                    (IF category = "rateLimit" /\ LoopContinues(n) THEN rateLimitPenalty ELSE 0),
      thrown |-> ~LoopContinues(n),
      causes |-> Bump(old.causes, Cause(resp)),
      owed |-> old.owed +
                 (IF Cause(resp) = "rateLimit" /\ LoopContinues(n) THEN rateLimitPenalty ELSE 0)]

\* a remote call of item id answers, with the bookkeeping of the catch block
ErrorRespond(id, resp) ==
  /\ todo = <<>>
  /\ RemoteRespond(id, resp)
  /\ LET old == IF id \in DOMAIN errorCounts THEN errorCounts[id] ELSE NewCounts
         text == promises[id].text
     IN errorCounts' =
          IF ApiResult(variant, text, resp).ok
            THEN [k \in DOMAIN errorCounts \ {id} |-> errorCounts[k]]
            ELSE MapPut(errorCounts, id, Counted(old, text, resp, promises[id].attempts + 1))
  /\ UNCHANGED <<todo, batchVars, hookVars>>

ErrorResponses == {"ok", "timeout", "http429", "http5xx"}

InitErrors == Fresh /\ ghost = "ops" /\ variant = "service" /\ longTexts \in {{}, {TextA}}

ErrorsNext ==
  \/ \E text \in {TextA, TextB} : translate("ja", "zh", text, ErrorCalls) /\ UNCHANGED clientVars
  \/ \E id \in DOMAIN promises : \E resp \in ErrorResponses : ErrorRespond(id, resp)

SpecErrors == InitErrors /\ [][ErrorsNext]_vars

\* C30: the counts carried by the error thrown after the last attempt are the
\* numbers of attempts that failed by a timeout, by a 429 answer and by a 5xx
\* answer, and the fixed penalty delay was awaited after every 429 answer that
\* was followed by another attempt.
CountsMatchCauses ==
  \A id \in DOMAIN errorCounts :
    errorCounts[id].thrown =>
      /\ errorCounts[id].counts = errorCounts[id].causes
      /\ errorCounts[id].penalty = errorCounts[id].owed

----------------------------------------------------------------------------
(* Further claims about translateBatch *)

\* C31: a translateBatch call that resolves has passed every text it did not
\* find in the cache to translate, and while the calls of one sub-batch are
\* unsettled no text of a later sub-batch has been passed to translate.
EveryTaskSubmitted ==
  /\ batch.state = "resolved" =>
        \A p \in DOMAIN batch.tasks : batch.tasks[p] \in batch.submitted
  /\ (batch.state \in {"running", "delay"} /\ batch.dyn > 0) =>
        \A p \in DOMAIN batch.tasks :
           p > batch.i + batch.dyn => batch.tasks[p] \notin batch.submitted

----------------------------------------------------------------------------
(* The sub-batch sizes of translateBatch over lists of any length: the loop *)
(* is followed with its size computations only, on a fresh service where    *)
(* every text is a task.                                                    *)

MaxListLen == 101      \* texts of the longest list

SizePatterns == {"short", "long", "mixed", "head"}

\* a list of n texts: all short, all long, long and short in turn, or three
\* long ones followed by short ones (TextA is the long text)
SizeList(n, pattern) ==
  [k \in 1..n |->
     IF pattern = "long" \/ (pattern = "mixed" /\ k % 2 = 1) \/ (pattern = "head" /\ k <= 3)
       THEN TextA ELSE TextB]

SizeInputs == {SizeList(n, pattern) : n \in 0..MaxListLen, pattern \in SizePatterns}

InitSizes == Fresh /\ ghost = "none" /\ longTexts = {TextA}

\* translateBatch up to the end of its scan, which finds nothing cached
SizeCall(texts) ==
  /\ batch.state = "none"
  /\ batch' = [NoBatch EXCEPT !.state = "running", !.texts = texts,
                              !.results = [i \in DOMAIN texts |-> Undefined],
                              !.tasks = [i \in DOMAIN texts |-> i]]
  /\ batchNo' = batchNo + 1
  /\ UNCHANGED <<serviceVars, todo, longTexts, errorCounts, hookVars>>

\* one round of the loop: the slice, its effective size, the tasks submitted
SizeLoop ==
  /\ batch.state = "running"
  /\ LET n == Len(batch.tasks)
         dyn == DynamicBatchSize(Len(batch.texts), SumLength(TextsOf(batch.texts, batch.tasks)), n)
         cur == SubSeq(batch.tasks, batch.i + 1, Min(batch.i + dyn, n))
         eff == EffectiveBatchSize(dyn, SumLength(TextsOf(batch.texts, cur)))
         actual == ActualBatch(Len(cur), eff)
     IN batch' = IF batch.i >= n
                   THEN [batch EXCEPT !.state = "resolved", !.dyn = dyn]
                 ELSE IF variant = "hook"
                   THEN [batch EXCEPT !.state = "rejected", !.failure = "reference", !.dyn = dyn]
                 ELSE [batch EXCEPT !.dyn = dyn, !.size = eff,
                                    !.wait = [k \in 1..actual |-> 0],
                                    !.submitted = @ \cup {cur[k] : k \in 1..actual},
                                    !.i = batch.i + dyn]
  /\ UNCHANGED <<serviceVars, todo, longTexts, errorCounts, batchNo, hookVars>>

SizesNext ==
  \/ \E texts \in SizeInputs : SizeCall(texts)
  \/ SizeLoop

SpecSizes == InitSizes /\ [][SizesNext]_vars

\* C32: the dynamic sub-batch size is at least 10 and at most 50, and a
\* sub-batch never has more tasks submitted than that size.
DynamicSizeInRange ==
  (batch.state # "none" /\ batch.dyn # 0) =>
    /\ 10 <= batch.dyn
    /\ batch.dyn <= 50
    /\ Len(batch.wait) <= batch.dyn

\* a list of a hundred short texts is cut into full sub-batches of fifty
FullSubBatchOfFifty ==
  /\ Len(batch.texts) = 100
  /\ batch.dyn = 50
  /\ Len(batch.wait) = 50
  /\ batch.i = 100

\* the texts passed to translate in the sub-batch whose calls are awaited
AwaitedTexts ==
  TextsOf(batch.texts, SubSeq(batch.tasks, batch.i + 1, batch.i + Len(batch.wait)))

\* C33: while the calls of a sub-batch of more than one text are awaited, the
\* texts submitted in it have at most maxCharsPerBatch characters together.
CharBudgetKept ==
  (batch.state = "running" /\ todo = <<>> /\ Len(batch.wait) > 1) =>
     SumLength(AwaitedTexts) <= maxCharsPerBatch

----------------------------------------------------------------------------
(* Further claims about the waves and the progress of the sessions *)

\* C34: at most 5 translate calls of one session are unsettled at any time,
\* no record beyond the current wave has been started, and every record of
\* the waves before it is finished.
WavesOfFive ==
  \A s \in DOMAIN sessions :
    LET sess == sessions[s]
    IN /\ Cardinality({k \in DOMAIN sess.orig : sess.item[k] = "waiting"}) <= 5
       /\ \A k \in DOMAIN sess.orig :
             /\ sess.item[k] # "none" => k <= sess.i + 5
             /\ k <= sess.i => sess.item[k] = "done"

\* the second wave of a session has started: its record awaits its call after
\* the five records of the first wave were finished
SecondWaveAwaited ==
  \E s \in DOMAIN sessions :
    /\ Len(sessions[s].orig) = MaxRecords
    /\ sessions[s].i = WaveSize
    /\ sessions[s].item[MaxRecords] = "waiting"
    /\ ~sessions[s].cancelled

----------------------------------------------------------------------------
(* clearCache among translate calls and remote answers *)

ClearCalls == 3        \* translate calls of one behaviour that create or join a request

InitClear == Fresh /\ ghost = "ops" /\ longTexts = {}

ClearCall == clearCache /\ UNCHANGED clientVars

ClearRespond(id, resp) == RemoteRespond(id, resp) /\ UNCHANGED clientVars

ClearNext ==
  \/ \E text \in Texts : translate("ja", "zh", text, ClearCalls) /\ UNCHANGED clientVars
  \/ \E id \in DOMAIN promises : \E resp \in ClientResponses : ClearRespond(id, resp)
  \/ ClearCall

SpecClear == InitClear /\ [][ClearNext]_vars

\* C35: clearCache leaves the result cache empty and changes neither the
\* promise cache, the queue, the active count nor the items; an item in flight
\* settles as before and the value it resolves with is then in the result cache.
ClearOnlyEmptiesResults ==
  [][/\ ClearCall =>
          /\ getCacheStats'.size = 0
          /\ promiseCache' = promiseCache
          /\ nextId' = nextId
          /\ poolVars' = poolVars
     /\ \A id \in DOMAIN promises : \A resp \in ClientResponses :
          (ClearRespond(id, resp) /\ ApiResult(variant, promises[id].text, resp).ok) =>
             /\ id \notin DOMAIN promises'
             /\ KeyOf(promises[id].text) \notin DOMAIN promiseCache'
             /\ KeyOf(promises[id].text) \in DOMAIN resultCache'.cache
             /\ resultCache'.cache[KeyOf(promises[id].text)]
                  = ApiResult(variant, promises[id].text, resp).value]_vars

\* the cache was cleared, after a request had resolved, while another request
\* was in flight
ClearedWhileInFlight ==
  /\ lastOp.op = "clearCache"
  /\ getCacheStats.size = 0
  /\ activeTranslations > 0
  /\ \E i \in DOMAIN callers : callers[i].outcome.state = "resolved"

\* C36: the progress always satisfies 0 <= completed <= total.
ProgressWithinTotal ==
  /\ 0 <= progressRef.completed
  /\ progressRef.completed <= progressRef.total

\* C37: when a session that was not cancelled has called onTranslated (no
\* other session having been started since), completed equals total, the
\* number of its records.
CompleteMeansAllCounted ==
  LET s == Len(sessions)
  IN (/\ s > 0
      /\ sessions[s].called = 1
      /\ ~sessions[s].cancelled
      /\ ~isCancelledRef)
       => /\ progressRef.total = Len(sessions[s].orig)
          /\ progressRef.completed = progressRef.total

----------------------------------------------------------------------------
(* Further claims about the scheduler's status and the result cache *)

\* C38: after every operation, getQueueStatus().isProcessing is true exactly
\* when the queue is non-empty or an item is dispatched and unsettled.
ProcessingIffWork ==
  getQueueStatus.isProcessing <=> (getQueueStatus.queued > 0 \/ getQueueStatus.active > 0)

\* several items were submitted and have all settled: the scheduler is idle again
IdleAfterWork ==
  /\ ~getQueueStatus.isProcessing
  /\ nextId > 2
  /\ Len(dispatchLog) = nextId - 1
  /\ DOMAIN promises = {}
  /\ maxConcurrent = 2

\* C39: an item that resolves with its own text (the answer carried no
\* translation) leaves that text in the result cache under its key, and a
\* translate call for a key cached with the text itself returns the text from
\* the cache: no request is created, nothing is queued or dispatched.
FallbackIsCached ==
  [][/\ (lastOp'.op = "settle" /\ lastOp'.kind = "resolved" /\ lastOp'.value = lastOp'.text) =>
          /\ KeyOf(lastOp'.text) \in DOMAIN resultCache'.cache
          /\ resultCache'.cache[KeyOf(lastOp'.text)] = lastOp'.text
     /\ \A text \in Texts :
          (/\ KeyOf(text) \in DOMAIN resultCache.cache
           /\ resultCache.cache[KeyOf(text)] = text
           /\ translate("ja", "zh", text, ClearCalls)
           /\ UNCHANGED clientVars)
            => /\ lastOp'.kind = "hit"
               /\ lastOp'.value = text
               /\ nextId' = nextId
               /\ promiseCache' = promiseCache
               /\ poolVars' = poolVars]_vars

\* a translate call was answered from the cache with the text itself, after
\* another text had been requested
FallbackServedFromCache ==
  /\ lastOp.op = "translate"
  /\ lastOp.kind = "hit"
  /\ lastOp.value = lastOp.text
  /\ nextId > 2

====
